---- MODULE Spec2Model ----
(***************************************************************************)
(* Model of Library/OcBootManagementLib/LegacyBootSupport.c:               *)
(*   CheckLegacySignature, ScanAppleLegacyInterfacePaths,                  *)
(*   InternalLoadAppleLegacyInterface and InternalGetDiskLegacyOsType.     *)
(*                                                                         *)
(* One behaviour is one call of one entry point (variable call).  Device   *)
(* paths and disk buffers are byte sequences, a NULL pointer is the empty  *)
(* sequence.  C array index i is TLA+ index i + 1.                         *)
(***************************************************************************)
EXTENDS Integers, Sequences, FiniteSets, TLC

VARIABLES
  call,               \* entry point of this behaviour: "load", "classify", "signature"
  pc,                 \* position inside the running function, "done" after return
  Result,             \* value returned by the entry point, "none" before return
  BootCampHD,         \* payload of the BootCampHD variable (NULL: not set)
  BootCampHD0,        \* payload of the variable when the call started
  WholeDiskPath,      \* InternalLoadAppleLegacyInterface local
  Status,             \* EFI_STATUS local of the running function
  LegacyDevicePaths,  \* the candidate array (<<>> while not allocated)
  Index,              \* loader loop index
  ImageHandle,        \* *ImageHandle, the caller's output slot
  Handles,            \* handle buffer returned by LocateHandleBuffer
  NoHandles,          \* ScanAppleLegacyInterfacePaths locals
  HandleIndex,
  PathCount,
  MaxDevicePaths,
  Disk,               \* content and geometry of the disk being classified
  BufferSize,         \* InternalGetDiskLegacyOsType locals
  Buffer,
  LegacyOsType,
  SignatureStr,       \* CheckLegacySignature argument (NUL-terminated)
  Pool,               \* pool allocations made by the call and not yet freed
  Calls               \* history of the collaborator calls made so far

vars == << call, pc, Result, BootCampHD, BootCampHD0, WholeDiskPath, Status,
           LegacyDevicePaths, Index, ImageHandle, Handles, NoHandles,
           HandleIndex, PathCount, MaxDevicePaths, Disk, BufferSize, Buffer,
           LegacyOsType, SignatureStr, Pool, Calls >>

scanVars == << Handles, NoHandles, HandleIndex, PathCount, MaxDevicePaths >>
diskVars == << Disk, BufferSize, Buffer, LegacyOsType, SignatureStr >>
loadVars == << BootCampHD, BootCampHD0, WholeDiskPath, LegacyDevicePaths,
               Index, ImageHandle >>

(***************************************************************************)
(* Bounds of the model.                                                    *)
(***************************************************************************)
MaxHandles == 3     \* longest exhaustively enumerated handle buffer
MaxSigLen  == 2     \* longest signature given to CheckLegacySignature alone
MaxBufLen  == 4     \* longest buffer given to CheckLegacySignature alone

(***************************************************************************)
(* Program constants.                                                      *)
(***************************************************************************)
MBR_SECTOR_SIZE               == 512
MAX_APPLE_LEGACY_DEVICE_PATHS == 16
HARDWARE_DEVICE_PATH          == 1
HW_MEMMAP_DP                  == 3

NULL == << >>

EFI_SUCCESS           == "EFI_SUCCESS"
EFI_NOT_FOUND         == "EFI_NOT_FOUND"
EFI_INVALID_PARAMETER == "EFI_INVALID_PARAMETER"
EFI_OUT_OF_RESOURCES  == "EFI_OUT_OF_RESOURCES"
EFI_LOAD_ERROR        == "EFI_LOAD_ERROR"
EFI_UNSUPPORTED       == "EFI_UNSUPPORTED"
EFI_WRITE_PROTECTED   == "EFI_WRITE_PROTECTED"
EFI_DEVICE_ERROR      == "EFI_DEVICE_ERROR"

\* EFI_ERROR: the status has its high bit set, i.e. it is one of the error codes.
EFI_ERROR(S) ==
  S \in { EFI_NOT_FOUND, EFI_INVALID_PARAMETER, EFI_OUT_OF_RESOURCES,
          EFI_LOAD_ERROR, EFI_UNSUPPORTED, EFI_WRITE_PROTECTED, EFI_DEVICE_ERROR }

OcLegacyOsTypeNone           == "OcLegacyOsTypeNone"
OcLegacyOsTypeWindowsBootmgr == "OcLegacyOsTypeWindowsBootmgr"
OcLegacyOsTypeWindowsNtldr   == "OcLegacyOsTypeWindowsNtldr"

(***************************************************************************)
(* Device paths as bytes.  A node is Type, SubType, Length (2 bytes, little *)
(* endian) and its payload; a path ends with the end node 7F FF 04 00.     *)
(***************************************************************************)
EndNode == << 127, 255, 4, 0 >>

\* static AppleLegacyInterfaceMediaDevicePathData[]: FwFile node and end node.
AppleLegacyInterfaceMediaDevicePathData ==
  << 4, 6, 20, 0, 235, 133, 5, 43,
     184, 216, 169, 73, 139, 140, 226, 27,
     1, 174, 242, 183, 127, 255, 4, 0 >>

AppleLegacyInterfaceMediaDevicePathPath == AppleLegacyInterfaceMediaDevicePathData

DevicePathType(Node)       == Node[1]
DevicePathSubType(Node)    == Node[2]
DevicePathNodeLength(Node) == Node[3] + 256 * Node[4]

\* CompareMem: 0 when the first Length bytes agree, else the difference of
\* the first pair of bytes that differ.
CompareMem(Dest, Src, Length) ==
  IF \A i \in 1..Length : Dest[i] = Src[i]
    THEN 0
    ELSE LET k == CHOOSE i \in 1..Length :
                    /\ Dest[i] # Src[i]
                    /\ \A j \in 1..(i - 1) : Dest[j] = Src[j]
         IN  Dest[k] - Src[k]

\* GetDevicePathSize: walks the nodes up to and including the end node.
RECURSIVE PathSizeFrom(_, _)
PathSizeFrom(Path, Off) ==
  LET Node == SubSeq(Path, Off + 1, Len(Path))
  IN  IF DevicePathType(Node) = 127 /\ DevicePathSubType(Node) = 255
        THEN Off + DevicePathNodeLength(Node)
        ELSE PathSizeFrom(Path, Off + DevicePathNodeLength(Node))

GetDevicePathSize(Path) == IF Path = NULL THEN 0 ELSE PathSizeFrom(Path, 0)

\* AppendDevicePath: the nodes of Src1 without its end node, then Src2 with
\* its end node, in a new allocation.  The pool is taken to satisfy this
\* request: line 144 stores the result unchecked.
AppendDevicePath(Src1, Src2) ==
  SubSeq(Src1, 1, GetDevicePathSize(Src1) - Len(EndNode))
    \o SubSeq(Src2, 1, GetDevicePathSize(Src2))

(***************************************************************************)
(* The device paths the firmware's handles may carry.                      *)
(***************************************************************************)
\* MemMap(EfiMemoryMappedIO, start, end): a 24-byte Hardware/MemoryMapped node.
MemMapNode(b) ==
  << HARDWARE_DEVICE_PATH, HW_MEMMAP_DP, 24, 0, 11, 0, 0, 0,
     0, 0, b, 255, 0, 0, 0, 0,
     255, 255, b, 255, 0, 0, 0, 0 >>

\* FvFile-less firmware volume node, Media/PIWG volume, 20 bytes.
FvNode ==
  << 4, 7, 20, 0, 1, 2, 3, 4, 5, 6, 7, 8, 9, 10, 11, 12, 13, 14, 15, 16 >>

MemMapPath(b)   == MemMapNode(b) \o EndNode
MemMapFvPath(b) == MemMapNode(b) \o FvNode \o EndNode
\* Hardware/PCI: right type, other subtype.
PciPath         == << HARDWARE_DEVICE_PATH, 1, 6, 0, 0, 31 >> \o EndNode
\* ACPI/_ADR: subtype 3 under another type.
AcpiAdrPath     == << 2, 3, 8, 0, 0, 0, 1, 0 >> \o EndNode
\* Whole-disk paths the disk-path resolver may return / the variable may hold.
DiskPathNew     == << 2, 1, 12, 0, 208, 65, 10, 3, 0, 0, 0, 0 >> \o EndNode
DiskPathOld     == << 2, 1, 12, 0, 208, 65, 10, 3, 1, 0, 0, 0 >> \o EndNode

\* A handle of the registry: whether it answers the LoadedImage protocol
\* query, and the device path of LoadedImage->DeviceHandle (NULL: the device
\* handle carries no device path protocol).
Handle(li, dp) == [ LoadedImage |-> li, DevicePath |-> dp ]

HandleKinds ==
  { Handle(FALSE, NULL), Handle(TRUE, NULL), Handle(TRUE, PciPath),
    Handle(TRUE, AcpiAdrPath), Handle(TRUE, MemMapPath(1)),
    Handle(TRUE, MemMapPath(2)), Handle(TRUE, MemMapFvPath(1)) }

RECURSIVE SeqsUpTo(_, _)
SeqsUpTo(S, n) ==
  IF n = 0 THEN { << >> }
  ELSE LET Shorter == SeqsUpTo(S, n - 1)
       IN  Shorter \cup { Append(s, x) : s \in { t \in Shorter : Len(t) = n - 1 }, x \in S }

\* Handle buffers longer than the candidate array: all handles carrying the
\* same path, and all carrying pairwise different paths.
LongLen == MAX_APPLE_LEGACY_DEVICE_PATHS + 1
LongHandleBuffers ==
  { [ i \in 1..LongLen |-> Handle(TRUE, MemMapPath(1)) ],
    [ i \in 1..LongLen |-> Handle(TRUE, MemMapPath(i)) ] }

HandleBuffers == (SeqsUpTo(HandleKinds, MaxHandles) \ { << >> }) \cup LongHandleBuffers


(***************************************************************************)
(* Bookkeeping shared by the entry points.                                 *)
(***************************************************************************)
Alloc(Tag, n) == << Tag, n >>
Call(Op, Arg, St) == [ Op |-> Op, Arg |-> Arg, Status |-> St ]
CallsOf(Op) == { i \in 1..Len(Calls) : Calls[i].Op = Op }

CallerImageHandle == << "CallerValue", 0 >>
LoadedImageHandle(i) == << "LoadedImage", i >>

NoDisk == [ BlockSize |-> 0, Bootmgr |-> -1, Ntldr |-> -1 ]

Return(Value) == pc' = "done" /\ Result' = Value

(***************************************************************************)
(* ScanAppleLegacyInterfacePaths (DevicePaths is LegacyDevicePaths).       *)
(***************************************************************************)
\* Lines 128-138: the duplicate search over the accepted paths.
DevicePathExists(DevicePath, DevicePaths, Count) ==
  \E PathIndex \in 0..(Count - 1) :
    /\ DevicePathNodeLength(DevicePath) = DevicePathNodeLength(DevicePaths[PathIndex + 1])
    /\ CompareMem(DevicePath, DevicePaths[PathIndex + 1], DevicePathNodeLength(DevicePath)) # 0

\* IsMemMapPath rejecting a path only when both its type and its subtype
\* are wrong (&& for the || of line 119).
IsMemMapPath_EitherField(DevicePath) ==
  ~ (/\ DevicePathType(DevicePath) # HARDWARE_DEVICE_PATH
     /\ DevicePathSubType(DevicePath) # HW_MEMMAP_DP)

\* Lines 119-120: the leading node is Hardware / MemoryMapped.
IsMemMapPath(DevicePath) ==
  ~ (\/ DevicePathType(DevicePath) # HARDWARE_DEVICE_PATH
     \/ DevicePathSubType(DevicePath) # HW_MEMMAP_DP)

\* Lines 98-142: whether the loop body reaches line 144 for this handle.
ScanAccepts(H, DevicePaths, Count) ==
  /\ H.LoadedImage
  /\ H.DevicePath # NULL
  /\ IsMemMapPath(H.DevicePath)
  /\ ~ DevicePathExists(H.DevicePath, DevicePaths, Count)

\* ScanLocateHandleBuffer without the decrement of line 80: no slot is kept
\* for the sentinel.
ScanLocateHandleBuffer_NoReserve ==
  /\ pc = "Scan_Locate"
  /\ MaxDevicePaths' = MAX_APPLE_LEGACY_DEVICE_PATHS
  /\ PathCount' = 0
  /\ HandleIndex' = 0
  /\ \/ \E St \in { EFI_NOT_FOUND, EFI_OUT_OF_RESOURCES } :
          /\ Status' = St
          /\ Calls' = Append(Calls, Call("LocateHandleBuffer", 0, St))
          /\ pc' = "Scan_Return"
          /\ UNCHANGED << Handles, NoHandles, Pool >>
     \/ \E Buf \in HandleBuffers :
          /\ Status' = EFI_SUCCESS
          /\ Calls' = Append(Calls, Call("LocateHandleBuffer", 0, EFI_SUCCESS))
          /\ Handles' = Buf
          /\ NoHandles' = Len(Buf)
          /\ Pool' = Pool \cup { Alloc("Handles", 0) }
          /\ pc' = "Scan_Loop"
  /\ UNCHANGED << call, Result, loadVars, diskVars >>

\* Lines 80-95: entry, LocateHandleBuffer.  An empty registry answers
\* EFI_NOT_FOUND; any enumeration may fail with EFI_OUT_OF_RESOURCES.
ScanLocateHandleBuffer ==
  /\ pc = "Scan_Locate"
  /\ MaxDevicePaths' = MAX_APPLE_LEGACY_DEVICE_PATHS - 1
  /\ PathCount' = 0
  /\ HandleIndex' = 0
  /\ \/ \E St \in { EFI_NOT_FOUND, EFI_OUT_OF_RESOURCES } :
          /\ Status' = St
          /\ Calls' = Append(Calls, Call("LocateHandleBuffer", 0, St))
          /\ pc' = "Scan_Return"
          /\ UNCHANGED << Handles, NoHandles, Pool >>
     \/ \E Buf \in HandleBuffers :
          /\ Status' = EFI_SUCCESS
          /\ Calls' = Append(Calls, Call("LocateHandleBuffer", 0, EFI_SUCCESS))
          /\ Handles' = Buf
          /\ NoHandles' = Len(Buf)
          /\ Pool' = Pool \cup { Alloc("Handles", 0) }
          /\ pc' = "Scan_Loop"
  /\ UNCHANGED << call, Result, loadVars, diskVars >>

\* Lines 97-145: one iteration of the handle loop.
ScanHandle ==
  /\ pc = "Scan_Loop"
  /\ HandleIndex < NoHandles /\ PathCount < MaxDevicePaths
  /\ LET H == Handles[HandleIndex + 1]
     IN  IF ScanAccepts(H, LegacyDevicePaths, PathCount)
           THEN /\ LegacyDevicePaths' =
                     [ LegacyDevicePaths EXCEPT ![PathCount + 1] =
                         AppendDevicePath(H.DevicePath, AppleLegacyInterfaceMediaDevicePathPath) ]
                /\ PathCount' = PathCount + 1
                /\ Pool' = Pool \cup { Alloc("DevicePath", PathCount) }
           ELSE UNCHANGED << LegacyDevicePaths, PathCount, Pool >>
  /\ HandleIndex' = HandleIndex + 1
  /\ Status' = IF Handles[HandleIndex + 1].LoadedImage
                    /\ Handles[HandleIndex + 1].DevicePath # NULL
                 THEN EFI_SUCCESS ELSE EFI_UNSUPPORTED
  /\ UNCHANGED << call, pc, Result, BootCampHD, BootCampHD0, WholeDiskPath, Index,
                  ImageHandle, Handles, NoHandles, MaxDevicePaths, diskVars, Calls >>

\* ScanEnd returning the scanner's Status local, i.e. the status of the last
\* HandleProtocol call, instead of EFI_SUCCESS.
ScanEnd_ReturnsLastStatus ==
  /\ pc = "Scan_Loop"
  /\ ~ (HandleIndex < NoHandles /\ PathCount < MaxDevicePaths)
  /\ Pool' = Pool \ { Alloc("Handles", 0) }
  /\ LegacyDevicePaths' = [ LegacyDevicePaths EXCEPT ![PathCount + 1] = NULL ]
  /\ pc' = "Scan_Return"
  /\ UNCHANGED << call, Result, BootCampHD, BootCampHD0, WholeDiskPath, Index,
                  ImageHandle, scanVars, diskVars, Calls, Status >>

\* Lines 147-150: the loop is over; free the handle buffer, write the
\* sentinel, return EFI_SUCCESS to line 202.
ScanEnd ==
  /\ pc = "Scan_Loop"
  /\ ~ (HandleIndex < NoHandles /\ PathCount < MaxDevicePaths)
  /\ Pool' = Pool \ { Alloc("Handles", 0) }
  /\ LegacyDevicePaths' = [ LegacyDevicePaths EXCEPT ![PathCount + 1] = NULL ]
  /\ Status' = EFI_SUCCESS
  /\ pc' = "Scan_Return"
  /\ UNCHANGED << call, Result, BootCampHD, BootCampHD0, WholeDiskPath, Index,
                  ImageHandle, scanVars, diskVars, Calls >>

(***************************************************************************)
(* InternalLoadAppleLegacyInterface.                                       *)
(***************************************************************************)
\* LoaderGetDevicePath with the NULL check of line 171 left out.
LoaderGetDevicePath_Unchecked ==
  /\ pc = "GetDevicePath"
  /\ \E Path \in { NULL, DiskPathNew } :
       /\ WholeDiskPath' = Path
       /\ pc' = "SetVariable"
       /\ Result' = Result
  /\ UNCHANGED << call, BootCampHD, BootCampHD0, Status, LegacyDevicePaths, Index,
                  ImageHandle, scanVars, diskVars, Pool, Calls >>

\* Lines 170-173: OcDiskGetDevicePath yields the whole-disk path or NULL.
LoaderGetDevicePath ==
  /\ pc = "GetDevicePath"
  /\ \E Path \in { NULL, DiskPathNew } :
       /\ WholeDiskPath' = Path
       /\ IF Path = NULL
            THEN Return(EFI_INVALID_PARAMETER)
            ELSE pc' = "SetVariable" /\ Result' = Result
  /\ UNCHANGED << call, BootCampHD, BootCampHD0, Status, LegacyDevicePaths, Index,
                  ImageHandle, scanVars, diskVars, Pool, Calls >>

\* LoaderSetVariable with the status check of line 190 left out.
LoaderSetVariable_Unchecked ==
  /\ pc = "SetVariable"
  /\ \E St \in { EFI_SUCCESS, EFI_WRITE_PROTECTED, EFI_OUT_OF_RESOURCES } :
       /\ Status' = St
       /\ Calls' = Append(Calls, Call("SetVariable", GetDevicePathSize(WholeDiskPath), St))
       /\ BootCampHD' = IF EFI_ERROR(St) THEN BootCampHD
                        ELSE SubSeq(WholeDiskPath, 1, GetDevicePathSize(WholeDiskPath))
       /\ pc' = "Allocate"
       /\ Result' = Result
  /\ UNCHANGED << call, BootCampHD0, WholeDiskPath, LegacyDevicePaths, Index,
                  ImageHandle, scanVars, diskVars, Pool >>

\* Lines 183-192: gRT->SetVariable of the whole-disk path.
LoaderSetVariable ==
  /\ pc = "SetVariable"
  /\ \E St \in { EFI_SUCCESS, EFI_WRITE_PROTECTED, EFI_OUT_OF_RESOURCES } :
       /\ Status' = St
       /\ Calls' = Append(Calls, Call("SetVariable", GetDevicePathSize(WholeDiskPath), St))
       /\ IF EFI_ERROR(St)
            THEN /\ Return(St)
                 /\ BootCampHD' = BootCampHD
            ELSE /\ BootCampHD' = SubSeq(WholeDiskPath, 1, GetDevicePathSize(WholeDiskPath))
                 /\ pc' = "Allocate"
                 /\ Result' = Result
  /\ UNCHANGED << call, BootCampHD0, WholeDiskPath, LegacyDevicePaths, Index,
                  ImageHandle, scanVars, diskVars, Pool >>

\* Lines 197-200: AllocateZeroPool of the candidate array.
LoaderAllocate ==
  /\ pc = "Allocate"
  /\ \/ /\ Return(EFI_OUT_OF_RESOURCES)
        /\ UNCHANGED << LegacyDevicePaths, Pool >>
     \/ /\ LegacyDevicePaths' = [ i \in 1..MAX_APPLE_LEGACY_DEVICE_PATHS |-> NULL ]
        /\ Pool' = Pool \cup { Alloc("LegacyDevicePaths", 0) }
        /\ pc' = "Scan_Locate"
        /\ Result' = Result
  /\ UNCHANGED << call, BootCampHD, BootCampHD0, WholeDiskPath, Status, Index,
                  ImageHandle, scanVars, diskVars, Calls >>

\* LoadBreaks leaving the loop after the first load, whatever its status.
LoadBreaks_Always(St) == TRUE

\* LoadBreaks leaving the loop on failures only, a success advancing too.
LoadBreaks_NotOnSuccess(St) == St \notin { EFI_NOT_FOUND, EFI_SUCCESS }

\* LoadBreaks leaving the loop on success only, every failure advancing.
LoadBreaks_OnSuccessOnly(St) == St = EFI_SUCCESS

\* Lines 213-230: whether the loop leaves after a load with this status.
LoadBreaks(St) == St # EFI_NOT_FOUND

\* LoaderScanReturn absorbing a scan failure: the loop is entered whatever
\* the scan returned, starting from "not found".
LoaderScanReturn_Tolerant ==
  /\ pc = "Scan_Return"
  /\ pc' = "Load_Loop"
  /\ Index' = 0
  /\ Status' = IF EFI_ERROR(Status) THEN EFI_NOT_FOUND ELSE Status
  /\ UNCHANGED << call, Result, BootCampHD, BootCampHD0, WholeDiskPath,
                  LegacyDevicePaths, ImageHandle, scanVars, diskVars, Pool, Calls >>

\* Lines 202-204: the scan has returned its status; the loop is entered
\* only when it is not an error.
LoaderScanReturn ==
  /\ pc = "Scan_Return"
  /\ IF ~ EFI_ERROR(Status)
       THEN pc' = "Load_Loop" /\ Index' = 0
       ELSE pc' = "Free" /\ Index' = Index
  /\ UNCHANGED << call, Result, BootCampHD, BootCampHD0, WholeDiskPath, Status,
                  LegacyDevicePaths, ImageHandle, scanVars, diskVars, Pool, Calls >>

\* Lines 204-231: one loop step: test the entry, LoadImage, break or advance.
\* LoadImage writes *ImageHandle only when it succeeds.
LoaderLoadLoop ==
  /\ pc = "Load_Loop"
  /\ IF LegacyDevicePaths[Index + 1] = NULL
       THEN /\ pc' = "Free"
            /\ UNCHANGED << Status, Index, ImageHandle, Calls >>
       ELSE \E St \in { EFI_SUCCESS, EFI_NOT_FOUND, EFI_LOAD_ERROR, EFI_UNSUPPORTED } :
              /\ Status' = St
              /\ Calls' = Append(Calls, Call("LoadImage", Index, St))
              /\ ImageHandle' = IF St = EFI_SUCCESS THEN LoadedImageHandle(Index)
                                ELSE ImageHandle
              /\ IF LoadBreaks(St)
                   THEN pc' = "Free" /\ Index' = Index
                   ELSE pc' = "Load_Loop" /\ Index' = Index + 1
  /\ UNCHANGED << call, Result, BootCampHD, BootCampHD0, WholeDiskPath,
                  LegacyDevicePaths, scanVars, diskVars, Pool >>

\* LoaderFree undoing the variable write when the call ends in an error.
LoaderFree_Rollback ==
  /\ pc = "Free"
  /\ Pool' = Pool \ { Alloc("LegacyDevicePaths", 0) }
  /\ Return(Status)
  /\ BootCampHD' = IF EFI_ERROR(Status) THEN BootCampHD0 ELSE BootCampHD
  /\ UNCHANGED << call, BootCampHD0, WholeDiskPath, LegacyDevicePaths, Index,
                  ImageHandle, Status, scanVars, diskVars, Calls >>

\* Lines 234-236: FreePool of the candidate array, return Status.
LoaderFree ==
  /\ pc = "Free"
  /\ Pool' = Pool \ { Alloc("LegacyDevicePaths", 0) }
  /\ Return(Status)
  /\ UNCHANGED << call, loadVars, Status, scanVars, diskVars, Calls >>


(***************************************************************************)
(* CheckLegacySignature and the disk it is used on.                        *)
(***************************************************************************)
\* The string literals of lines 286 and 288, with their terminating NUL.
BootmgrStr == << 66, 79, 79, 84, 77, 71, 82, 0 >>
NtldrStr   == << 78, 84, 76, 68, 82, 0 >>

\* AsciiStrLen: the number of bytes before the first NUL.
AsciiStrLen(Str) ==
  CHOOSE n \in 0..(Len(Str) - 1) :
    /\ Str[n + 1] = 0
    /\ \A j \in 1..n : Str[j] # 0

\* FindPattern without a mask: looks at every offset from DataOff up to the
\* last one where Pattern still fits into Data and answers whether Pattern
\* lies at one of them.
FindPattern(Pattern, PatternSize, Data, DataSize, DataOff) ==
  /\ PatternSize # 0
  /\ DataSize >= PatternSize
  /\ LET LastOffset == DataSize - PatternSize
     IN  \E CurrentOffset \in DataOff..LastOffset :
           \A i \in 1..PatternSize : Data[CurrentOffset + i] = Pattern[i]

\* CheckLegacySignature starting its search one byte into the buffer.
CheckLegacySignature_FromOne(Str, Buf, BufSize) ==
  LET Offset == 1
  IN  FindPattern(Str, AsciiStrLen(Str), Buf, BufSize, Offset)

\* Lines 47-60.
CheckLegacySignature(Str, Buf, BufSize) ==
  LET Offset == 0
  IN  FindPattern(Str, AsciiStrLen(Str), Buf, BufSize, Offset)

\* ALIGN_VALUE(Value, Alignment) is
\*   Value + ((Alignment - Value) & (Alignment - 1))  in UINT32 arithmetic.
\* The mask is below 2^30 for every block size used here, so the low 30 bits
\* of the wrapped difference are all that the AND keeps.
RECURSIVE BitAnd(_, _)
BitAnd(a, b) ==
  IF a = 0 \/ b = 0 THEN 0
  ELSE (a % 2) * (b % 2) + 2 * BitAnd(a \div 2, b \div 2)

ALIGN_VALUE(Value, Alignment) ==
  Value + BitAnd((Alignment - Value) % (2 ^ 30), Alignment - 1)

\* The byte at an offset of the disk: zero, except where the disk carries
\* the text BOOTMGR (Disk.Bootmgr) or NTLDR (Disk.Ntldr).
DiskByte(D, Off) ==
  IF D.Bootmgr >= 0 /\ Off >= D.Bootmgr /\ Off < D.Bootmgr + 7
    THEN BootmgrStr[Off - D.Bootmgr + 1]
    ELSE IF D.Ntldr >= 0 /\ Off >= D.Ntldr /\ Off < D.Ntldr + 5
      THEN NtldrStr[Off - D.Ntldr + 1]
      ELSE 0

BlockSizes == { 1, 3, 512, 520, 1024 }
TextOffsets == { -1, 0, 3, 505, 508, 600 }
Disks == [ BlockSize : BlockSizes, Bootmgr : TextOffsets, Ntldr : TextOffsets ]

(***************************************************************************)
(* InternalGetDiskLegacyOsType.                                            *)
(***************************************************************************)
\* Lines 254-257: OcDiskInitializeContext.
ClassifyInitializeContext ==
  /\ pc = "InitializeContext"
  /\ \E St \in { EFI_SUCCESS, EFI_UNSUPPORTED } :
       /\ Status' = St
       /\ Calls' = Append(Calls, Call("OcDiskInitializeContext", 0, St))
       /\ IF EFI_ERROR(St)
            THEN Return(OcLegacyOsTypeNone)
            ELSE pc' = "AllocateBuffer" /\ Result' = Result
  /\ UNCHANGED << call, loadVars, scanVars, diskVars, Pool >>

\* Lines 262-267: the read length and its buffer.
ClassifyAllocate ==
  /\ pc = "AllocateBuffer"
  /\ BufferSize' = ALIGN_VALUE(MBR_SECTOR_SIZE, Disk.BlockSize)
  /\ \/ /\ Return(OcLegacyOsTypeNone)
        /\ Pool' = Pool
     \/ /\ Pool' = Pool \cup { Alloc("Buffer", 0) }
        /\ pc' = "DiskRead"
        /\ Result' = Result
  /\ UNCHANGED << call, loadVars, scanVars, Status, Disk, Buffer, LegacyOsType,
                  SignatureStr, Calls >>

\* Lines 269-279: OcDiskRead of BufferSize bytes at offset 0.
ClassifyRead ==
  /\ pc = "DiskRead"
  /\ \E St \in { EFI_SUCCESS, EFI_DEVICE_ERROR } :
       /\ Status' = St
       /\ Calls' = Append(Calls, Call("OcDiskRead", BufferSize, St))
       /\ IF EFI_ERROR(St)
            THEN /\ Pool' = Pool \ { Alloc("Buffer", 0) }
                 /\ Return(OcLegacyOsTypeNone)
                 /\ Buffer' = Buffer
            ELSE /\ Buffer' = [ i \in 1..BufferSize |-> DiskByte(Disk, i - 1) ]
                 /\ pc' = "CheckSignatures"
                 /\ UNCHANGED << Pool, Result >>
  /\ UNCHANGED << call, loadVars, scanVars, Disk, BufferSize, LegacyOsType, SignatureStr >>

\* ClassifyBuffer with the two tests in the other order.
ClassifyBuffer_NtldrFirst(Buf, BufSize) ==
  IF CheckLegacySignature(NtldrStr, Buf, BufSize)
    THEN OcLegacyOsTypeWindowsNtldr
    ELSE IF CheckLegacySignature(BootmgrStr, Buf, BufSize)
      THEN OcLegacyOsTypeWindowsBootmgr
      ELSE OcLegacyOsTypeNone

\* Lines 285-290: the classification of a buffer.
ClassifyBuffer(Buf, BufSize) ==
  IF CheckLegacySignature(BootmgrStr, Buf, BufSize)
    THEN OcLegacyOsTypeWindowsBootmgr
    ELSE IF CheckLegacySignature(NtldrStr, Buf, BufSize)
      THEN OcLegacyOsTypeWindowsNtldr
      ELSE OcLegacyOsTypeNone

\* Lines 285-294.
ClassifyCheck ==
  /\ pc = "CheckSignatures"
  /\ LegacyOsType' = ClassifyBuffer(Buffer, BufferSize)
  /\ Pool' = Pool \ { Alloc("Buffer", 0) }
  /\ Return(LegacyOsType')
  /\ UNCHANGED << call, loadVars, scanVars, Status, Disk, BufferSize, Buffer,
                  SignatureStr, Calls >>

(***************************************************************************)
(* CheckLegacySignature called on its own.                                 *)
(***************************************************************************)
BooleanText(b) == IF b THEN "TRUE" ELSE "FALSE"

SignatureCheck ==
  /\ pc = "CheckLegacySignature"
  /\ Return(BooleanText(CheckLegacySignature(SignatureStr, Buffer, BufferSize)))
  /\ UNCHANGED << call, loadVars, scanVars, Status, diskVars, Pool, Calls >>

\* Signature bytes are letters (never NUL); buffers may also hold zero bytes.
SigBytes == { 78, 84 }
BufBytes == { 0, 78, 84 }
Signatures == { Append(s, 0) : s \in SeqsUpTo(SigBytes, MaxSigLen) \ { << >> } }
Buffers == SeqsUpTo(BufBytes, MaxBufLen)

(***************************************************************************)
(* Specification.                                                          *)
(***************************************************************************)
InitCommon ==
  /\ Result = "none"
  /\ Status = EFI_SUCCESS
  /\ WholeDiskPath = NULL
  /\ LegacyDevicePaths = << >>
  /\ Index = 0
  /\ ImageHandle = CallerImageHandle
  /\ Handles = << >>
  /\ NoHandles = 0
  /\ HandleIndex = 0
  /\ PathCount = 0
  /\ MaxDevicePaths = 0
  /\ LegacyOsType = OcLegacyOsTypeNone
  /\ Pool = { }
  /\ Calls = << >>

InitLoad ==
  /\ call = "load"
  /\ pc = "GetDevicePath"
  /\ BootCampHD0 \in { NULL, DiskPathOld }
  /\ BootCampHD = BootCampHD0
  /\ Disk = NoDisk
  /\ BufferSize = 0
  /\ Buffer = << >>
  /\ SignatureStr = << 0 >>

InitClassify ==
  /\ call = "classify"
  /\ pc = "InitializeContext"
  /\ BootCampHD0 = NULL
  /\ BootCampHD = NULL
  /\ Disk \in Disks
  /\ BufferSize = 0
  /\ Buffer = << >>
  /\ SignatureStr = << 0 >>

InitSignature ==
  /\ call = "signature"
  /\ pc = "CheckLegacySignature"
  /\ BootCampHD0 = NULL
  /\ BootCampHD = NULL
  /\ Disk = NoDisk
  /\ SignatureStr \in Signatures
  /\ Buffer \in Buffers
  /\ BufferSize = Len(Buffer)

Init == InitCommon /\ (InitLoad \/ InitClassify \/ InitSignature)

Next ==
  \/ LoaderGetDevicePath
  \/ LoaderSetVariable
  \/ LoaderAllocate
  \/ ScanLocateHandleBuffer
  \/ ScanHandle
  \/ ScanEnd
  \/ LoaderScanReturn
  \/ LoaderLoadLoop
  \/ LoaderFree
  \/ ClassifyInitializeContext
  \/ ClassifyAllocate
  \/ ClassifyRead
  \/ ClassifyCheck
  \/ SignatureCheck

Spec == Init /\ [][Next]_vars


(***************************************************************************)
(* Properties.                                                             *)
(***************************************************************************)
LoadCalls == SelectSeq(Calls, LAMBDA c : c.Op = "LoadImage")
LastLoad  == LoadCalls[Len(LoadCalls)]
LoadReturned == call = "load" /\ pc = "done"

SetVariableFailed ==
  \E i \in CallsOf("SetVariable") : Calls[i].Status # EFI_SUCCESS
ScanSucceeded ==
  \E i \in CallsOf("LocateHandleBuffer") : Calls[i].Status = EFI_SUCCESS
ScanFailed ==
  \E i \in CallsOf("LocateHandleBuffer") : Calls[i].Status # EFI_SUCCESS
ScanFailureStatus ==
  Calls[CHOOSE i \in CallsOf("LocateHandleBuffer") : TRUE].Status
ScanFinished == pc \in { "Scan_Return", "Load_Loop", "Free", "done" }

\* The text of a NUL-terminated string, and its occurrence as a contiguous
\* run of bytes of a buffer.
Text(Str) == SubSeq(Str, 1, Len(Str) - 1)
Occurs(T, Buf) ==
  \E Off \in 0..(Len(Buf) - Len(T)) : SubSeq(Buf, Off + 1, Off + Len(T)) = T

\* C1: when SetVariable returns an error, the loader has returned that very
\* status, without any registry enumeration and without any LoadImage call.
C1_PersistFailureReturnsAtOnce ==
  (call = "load" /\ SetVariableFailed) =>
    /\ pc = "done"
    /\ Result = Calls[Len(Calls)].Status
    /\ Calls[Len(Calls)].Op = "SetVariable"
    /\ CallsOf("LocateHandleBuffer") = { }
    /\ CallsOf("LoadImage") = { }
    /\ LegacyDevicePaths = << >>

C1_Witness ==
  /\ LoadReturned
  /\ SetVariableFailed
  /\ Result = EFI_WRITE_PROTECTED

\* C2: candidates are loaded in collection order, only a "not found" load is
\* followed by another load, and when the last load succeeded the loader
\* returns success with the image handle that load produced.
C2_FallbackReachesFirstSuccess ==
  call = "load" =>
    /\ \A i \in 1..Len(LoadCalls) : LoadCalls[i].Arg = i - 1
    /\ \A i \in 1..(Len(LoadCalls) - 1) : LoadCalls[i].Status = EFI_NOT_FOUND
    /\ (pc = "done" /\ LoadCalls # << >> /\ LastLoad.Status = EFI_SUCCESS) =>
         /\ Result = EFI_SUCCESS
         /\ ImageHandle = LoadedImageHandle(LastLoad.Arg)

C2_Witness ==
  /\ LoadReturned
  /\ Len(LoadCalls) = 2
  /\ LoadCalls[1].Status = EFI_NOT_FOUND
  /\ LoadCalls[2].Status = EFI_SUCCESS
  /\ Result = EFI_SUCCESS
  /\ ImageHandle = LoadedImageHandle(1)

\* C3: a load that fails with a status other than "not found" is the last
\* load of the call, and the loader returns exactly its status.
C3_DistinctFailureSurfaces ==
  call = "load" =>
    \A i \in 1..Len(LoadCalls) :
      LoadCalls[i].Status \notin { EFI_SUCCESS, EFI_NOT_FOUND } =>
        /\ i = Len(LoadCalls)
        /\ pc \in { "Free", "done" }
        /\ pc = "done" => Result = LoadCalls[i].Status

C3_Witness ==
  /\ LoadReturned
  /\ Len(LoadCalls) = 1
  /\ LoadCalls[1].Status = EFI_LOAD_ERROR
  /\ Result = EFI_LOAD_ERROR
  /\ LegacyDevicePaths[2] # NULL

\* C4: when the scan succeeded and the collection holds the sentinel only,
\* the loader returns "not found".
C4_EmptySetReturnsNotFound ==
  (LoadReturned /\ ScanSucceeded /\ LegacyDevicePaths[1] = NULL) =>
    Result = EFI_NOT_FOUND

\* C5 as claimed: when the scan failed, the loader returns "not found".
C5_ScanFailureReturnsNotFound ==
  (LoadReturned /\ ScanFailed) => Result = EFI_NOT_FOUND

\* C5: when the scan failed, no LoadImage call is made, the collection is
\* freed and the loader returns the status of the scan.
C5_ScanFailurePropagates ==
  (call = "load" /\ ScanFailed) =>
    /\ CallsOf("LoadImage") = { }
    /\ pc \in { "Scan_Return", "Free", "done" }
    /\ pc = "done" =>
         /\ Result = ScanFailureStatus
         /\ Alloc("LegacyDevicePaths", 0) \notin Pool

C5_Witness ==
  /\ LoadReturned
  /\ ScanFailed
  /\ Result = EFI_OUT_OF_RESOURCES

\* C6: when a call that allocated the collection has returned, nothing it
\* allocated is still live: not the collection, not a candidate path.
C6_NothingLiveAtReturn ==
  (LoadReturned /\ LegacyDevicePaths # << >>) => Pool = { }

\* C7: the candidates collected by the scan are pairwise different.
C7_CandidatesPairwiseDistinct ==
  call = "load" =>
    \A i, j \in 1..PathCount :
      i < j => LegacyDevicePaths[i] # LegacyDevicePaths[j]

\* The handles of the enumeration that resolve to a path led by a
\* Hardware / MemoryMapped node.
MatchingHandles ==
  { i \in 1..Len(Handles) :
      /\ Handles[i].LoadedImage
      /\ Handles[i].DevicePath # NULL
      /\ Handles[i].DevicePath[1] = 1
      /\ Handles[i].DevicePath[2] = 3 }

\* C8: a successful scan of an enumeration with more matching entries than
\* capacity - 1 leaves capacity - 1 entries followed by the sentinel.
C8_OverfullScanFillsCapacity ==
  (call = "load" /\ ScanFinished /\ ScanSucceeded
     /\ Cardinality(MatchingHandles) > MAX_APPLE_LEGACY_DEVICE_PATHS - 1) =>
    /\ PathCount = MAX_APPLE_LEGACY_DEVICE_PATHS - 1
    /\ \A i \in 1..(MAX_APPLE_LEGACY_DEVICE_PATHS - 1) : LegacyDevicePaths[i] # NULL
    /\ LegacyDevicePaths[MAX_APPLE_LEGACY_DEVICE_PATHS] = NULL

DiskWasRead ==
  \E i \in CallsOf("OcDiskRead") : Calls[i].Status = EFI_SUCCESS

\* C9: the classifier returns WindowsBootmgr when BOOTMGR occurs in the
\* bytes read, else WindowsNtldr when NTLDR occurs in them, else None; and
\* None when the context, the buffer or the read failed.
C9_ClassifierPriority ==
  (call = "classify" /\ pc = "done") =>
    Result = IF ~ DiskWasRead THEN OcLegacyOsTypeNone
             ELSE IF Occurs(Text(BootmgrStr), Buffer) THEN OcLegacyOsTypeWindowsBootmgr
             ELSE IF Occurs(Text(NtldrStr), Buffer) THEN OcLegacyOsTypeWindowsNtldr
             ELSE OcLegacyOsTypeNone

C9_Witness ==
  /\ call = "classify" /\ pc = "done"
  /\ DiskWasRead
  /\ Occurs(Text(BootmgrStr), Buffer)
  /\ Occurs(Text(NtldrStr), Buffer)
  /\ Result = OcLegacyOsTypeWindowsBootmgr

\* C10: CheckLegacySignature answers TRUE exactly when the signature occurs
\* in the buffer as a contiguous run of bytes, so FALSE for an empty buffer
\* and for a signature longer than the buffer, and it leaves the buffer as
\* it was.
C10_SignatureMatch ==
  [][ (call = "signature" /\ pc = "CheckLegacySignature") =>
        /\ Result' = BooleanText(Occurs(Text(SignatureStr), Buffer))
        /\ (Len(Text(SignatureStr)) > BufferSize \/ BufferSize = 0) => Result' = "FALSE"
        /\ Buffer' = Buffer
        /\ BufferSize' = BufferSize ]_vars

C10_Witness ==
  /\ call = "signature" /\ pc = "done"
  /\ Result = "TRUE"
  /\ Len(Buffer) > Len(Text(SignatureStr))
  /\ SubSeq(Buffer, 1, Len(Text(SignatureStr))) # Text(SignatureStr)

\* The candidates of the collection: the entries before the first NULL.
CandidateCount ==
  CHOOSE k \in 0..(MAX_APPLE_LEGACY_DEVICE_PATHS - 1) :
    /\ LegacyDevicePaths[k + 1] = NULL
    /\ \A i \in 1..k : LegacyDevicePaths[i] # NULL

\* C11: when the disk-path resolver yields no whole-disk path, the loader
\* has returned EFI_INVALID_PARAMETER without writing the variable, without
\* enumerating the registry and without any load.
C11_UnresolvedDiskIsInvalidParameter ==
  (call = "load" /\ pc # "GetDevicePath" /\ WholeDiskPath = NULL) =>
    /\ pc = "done"
    /\ Result = EFI_INVALID_PARAMETER
    /\ Calls = << >>
    /\ BootCampHD = BootCampHD0
    /\ LegacyDevicePaths = << >>

C11_Witness ==
  /\ LoadReturned
  /\ WholeDiskPath = NULL
  /\ Result = EFI_INVALID_PARAMETER
  /\ BootCampHD0 = DiskPathOld

\* C12: when the collection is not empty and every load returned "not
\* found", the loader returns "not found" after one load per entry of the
\* collection, in collection order.
C12_AllNotFoundExhaustsCollection ==
  (LoadReturned /\ ScanSucceeded /\ LegacyDevicePaths[1] # NULL
     /\ \A i \in 1..Len(LoadCalls) : LoadCalls[i].Status = EFI_NOT_FOUND) =>
    /\ Result = EFI_NOT_FOUND
    /\ Len(LoadCalls) = CandidateCount
    /\ \A i \in 1..Len(LoadCalls) : LoadCalls[i].Arg = i - 1

C12_Witness ==
  /\ LoadReturned
  /\ Result = EFI_NOT_FOUND
  /\ CandidateCount = 3
  /\ Len(LoadCalls) = 3
  /\ \A i \in 1..3 : LoadCalls[i].Status = EFI_NOT_FOUND

\* The candidate made of an enumerated path: the path without its end node,
\* followed by the legacy-interface trailer.
CandidateOf(Path) ==
  SubSeq(Path, 1, Len(Path) - 4) \o AppleLegacyInterfaceMediaDevicePathData

\* The matching handles among those the scan loop has gone through.
ScannedMatching == { h \in MatchingHandles : h <= HandleIndex }

\* C13: a matching entry is skipped exactly when an accepted candidate has
\* its content: no two accepted candidates are the same, and every matching
\* entry the loop has gone through (it does so only while capacity remains)
\* has its candidate in the collection.
C13_SkippedIffDuplicate ==
  call = "load" =>
    /\ \A i, j \in 1..PathCount :
         i < j => LegacyDevicePaths[i] # LegacyDevicePaths[j]
    /\ \A h \in ScannedMatching :
         \E j \in 1..PathCount :
           LegacyDevicePaths[j] = CandidateOf(Handles[h].DevicePath)

\* C14: every stored entry is the path of an enumerated handle whose two
\* resolutions succeeded and whose leading node is Hardware / MemoryMapped,
\* with the trailer appended; the other handles add nothing, and the slots
\* past the stored entries stay NULL.
C14_OnlyMatchingEntriesStored ==
  (call = "load" /\ LegacyDevicePaths # << >>) =>
    /\ \A j \in 1..PathCount :
         \E h \in ScannedMatching :
           LegacyDevicePaths[j] = CandidateOf(Handles[h].DevicePath)
    /\ PathCount <= Cardinality(ScannedMatching)
    /\ \A j \in (PathCount + 1)..Len(LegacyDevicePaths) : LegacyDevicePaths[j] = NULL

C14_Witness ==
  /\ call = "load" /\ pc = "Scan_Return"
  /\ NoHandles = 3
  /\ Handles[1].DevicePath = PciPath
  /\ Handles[2].DevicePath = AcpiAdrPath
  /\ Handles[3].DevicePath = MemMapFvPath(1)
  /\ PathCount = 1
  /\ LegacyDevicePaths[1] = CandidateOf(MemMapFvPath(1))

\* C15: the scanner returns an error exactly when LocateHandleBuffer
\* failed, and then that status; otherwise it returns EFI_SUCCESS after
\* going through the handles until they or the capacity are exhausted,
\* whatever the per-handle resolutions answered and however few were kept.
C15_ScanFailsOnlyOnEnumeration ==
  (call = "load" /\ pc = "Scan_Return") =>
    IF ScanFailed
      THEN Status = ScanFailureStatus /\ EFI_ERROR(Status) /\ PathCount = 0
      ELSE /\ Status = EFI_SUCCESS
           /\ HandleIndex = NoHandles \/ PathCount = MaxDevicePaths

C15_Witness ==
  /\ call = "load" /\ pc = "Scan_Return"
  /\ Status = EFI_SUCCESS
  /\ NoHandles = 3
  /\ ~ Handles[1].LoadedImage
  /\ Handles[2].LoadedImage /\ Handles[2].DevicePath = NULL
  /\ Handles[3].DevicePath = MemMapPath(1)
  /\ PathCount = 1

C17_ReadLengthIsRoundedUp ==
  (call = "classify" /\ CallsOf("OcDiskRead") # { }) =>
    /\ \A i \in CallsOf("OcDiskRead") : Calls[i].Arg = BufferSize
    /\ BufferSize % Disk.BlockSize = 0
    /\ BufferSize >= MBR_SECTOR_SIZE
    /\ BufferSize - Disk.BlockSize < MBR_SECTOR_SIZE

\* The device path given to the i-th LoadImage call.
LoadedPath(i) == LegacyDevicePaths[LoadCalls[i].Arg + 1]

\* C18: the variable is written at most once, exactly once when the disk
\* path was resolved, and before any load; the registry is enumerated at
\* most once; no candidate path is given to LoadImage twice.
C18_EachResourceAttemptedOnce ==
  call = "load" =>
    /\ Cardinality(CallsOf("SetVariable")) <= 1
    /\ (WholeDiskPath # NULL /\ pc \notin { "GetDevicePath", "SetVariable" }) =>
         Cardinality(CallsOf("SetVariable")) = 1
    /\ \A i \in CallsOf("SetVariable") : \A j \in CallsOf("LoadImage") : i < j
    /\ Cardinality(CallsOf("LocateHandleBuffer")) <= 1
    /\ \A i, j \in 1..Len(LoadCalls) : i < j => LoadedPath(i) # LoadedPath(j)

\* C19: when the loader returns EFI_SUCCESS, a LoadImage call was made, the
\* last one succeeded and the output handle is the one it produced.
C19_SuccessMeansImageLoaded ==
  (LoadReturned /\ Result = EFI_SUCCESS) =>
    /\ LoadCalls # << >>
    /\ LastLoad.Status = EFI_SUCCESS
    /\ ImageHandle = LoadedImageHandle(LastLoad.Arg)
    /\ ImageHandle # CallerImageHandle

VariableWritten ==
  \E i \in CallsOf("SetVariable") : Calls[i].Status = EFI_SUCCESS

\* C20: once SetVariable has succeeded the variable holds the whole-disk
\* path of this call, in every later state and at every exit; before the
\* write, and when the write fails, it holds what it held on entry.
C20_VariableNeverRolledBack ==
  call = "load" =>
    BootCampHD = IF VariableWritten THEN WholeDiskPath ELSE BootCampHD0

C20_Witness ==
  /\ LoadReturned
  /\ VariableWritten
  /\ BootCampHD0 = DiskPathOld
  /\ Result = EFI_LOAD_ERROR
  /\ BootCampHD = DiskPathNew

====
